---- MODULE Spec2Model ----
(***************************************************************************)
(* QuadTree image processing (src/backend/main.py).                        *)
(*                                                                         *)
(* The model follows class QuadTree: the recursive builder, the two flips, *)
(* the overlay merge with its leaf expansion and colour combination, and   *)
(* the renderer.  A Python object is modelled by a record that carries its *)
(* allocation identity (id; pv_id for the pixel_value list), so that       *)
(* sharing between trees is observable.  None is modelled by the empty     *)
(* sequence: the code only ever tests these fields for truthiness, and     *)
(* None and [] are both falsy.  Floating-point values (alpha, the results  *)
(* of the colour formulas before int(), compression_ratio) are modelled by *)
(* exact rationals; alpha is alpha/AlphaDen.                               *)
(***************************************************************************)
EXTENDS Integers, Sequences, FiniteSets, TLC

VARIABLES images, trees, calls, operation, alpha, last, rendered,
          in_color1, in_color2, out_color

vars == <<images, trees, calls, operation, alpha, last, rendered,
          in_color1, in_color2, out_color>>

(* ---------------------------------------------------------------------- *)
(* Bounds of the model                                                    *)
(* ---------------------------------------------------------------------- *)
MaxW == 3
MaxH == 3
MaxHot == 1
MaxTrees == 3
AlphaDen == 2

(* Largest channel value of an 8-bit raster. *)
MaxChannel == 255

Thresholds == {0, 10, 120}

HotColor == <<255, 128, 0>>

ValidOperations == {"blend", "add", "multiply", "screen"}

Operations == ValidOperations \cup {"xor"}

(* ---------------------------------------------------------------------- *)
(* Rasters: numpy arrays of shape (H, W) or (H, W, 3), indexed [y, x]      *)
(* ---------------------------------------------------------------------- *)
Coords(W, H) == (0..(H - 1)) \X (0..(W - 1))

HotSets(W, H) == {s \in SUBSET Coords(W, H) : Cardinality(s) <= MaxHot}

GrayImage(W, H, hot) ==
    [shape |-> <<H, W>>,
     px |-> [c \in Coords(W, H) |-> IF c \in hot THEN HotColor[1] ELSE 0]]

ColorImage(W, H, hot) ==
    [shape |-> <<H, W, 3>>,
     px |-> [c \in Coords(W, H) |-> IF c \in hot THEN HotColor ELSE <<0, 0, 0>>]]

Images ==
    UNION {UNION {{GrayImage(W, H, hot) : hot \in HotSets(W, H)}
                  \cup {ColorImage(W, H, hot) : hot \in HotSets(W, H)} :
                  W \in 1..MaxW} : H \in 1..MaxH}

(* image[y:y+height, x:x+width]: the coordinates of the slice, clipped to   *)
(* the array as numpy clips a slice (x, y >= 0 throughout).                 *)
Region(shape, x, y, width, height) ==
    {c \in Coords(shape[2], shape[1]) :
        /\ y <= c[1] /\ c[1] < y + height
        /\ x <= c[2] /\ c[2] < x + width}

RECURSIVE SumOver(_, _)
SumOver(f, S) ==
    IF S = {} THEN 0
    ELSE LET c == CHOOSE d \in S : TRUE
         IN f[c] + SumOver(f, S \ {c})

(* int(v) for the rational n/d, d > 0: truncation toward zero. *)
Trunc(n, d) == IF n >= 0 THEN n \div d ELSE -((-n) \div d)

(* np.std(values) < threshold, on the population standard deviation:       *)
(* sqrt(var) < t  iff  t > 0 and n*sum(v^2) - sum(v)^2 < t^2 * n^2.         *)
StdBelow(f, S, threshold) ==
    LET n == Cardinality(S)
        s1 == SumOver(f, S)
        s2 == SumOver([c \in S |-> f[c] * f[c]], S)
    IN /\ threshold > 0
       /\ n * s2 - s1 * s1 < threshold * threshold * n * n

Channel(image, ch) ==
    [c \in DOMAIN image.px |-> image.px[c][ch]]

is_homogeneous(image, threshold, x, y, width, height) ==
    IF width <= 1 \/ height <= 1 THEN TRUE
    ELSE LET region == Region(image.shape, x, y, width, height)
         IN IF Len(image.shape) = 3
            THEN \A ch \in 1..3 : StdBelow(Channel(image, ch), region, threshold)
            ELSE StdBelow(image.px, region, threshold)

get_average_color(image, x, y, width, height) ==
    LET region == Region(image.shape, x, y, width, height)
        n == Cardinality(region)
    IN IF Len(image.shape) = 3
       THEN [ch \in 1..3 |-> Trunc(SumOver(Channel(image, ch), region), n)]
       ELSE LET avg_color == Trunc(SumOver(image.px, region), n)
            IN <<avg_color, avg_color, avg_color>>

(* ---------------------------------------------------------------------- *)
(* QuadTreeNode                                                           *)
(* ---------------------------------------------------------------------- *)
(* k is the tree the node is allocated for, path its position in it.      *)
LeafNode(k, path, x, y, width, height, pixel_value, pv_id) ==
    [id |-> <<k, path>>, x |-> x, y |-> y, width |-> width, height |-> height,
     is_leaf |-> TRUE, pixel_value |-> pixel_value, pv_id |-> pv_id,
     children |-> <<>>]

InternalNode(k, path, x, y, width, height, children) ==
    [id |-> <<k, path>>, x |-> x, y |-> y, width |-> width, height |-> height,
     is_leaf |-> FALSE, pixel_value |-> <<>>, pv_id |-> <<>>,
     children |-> children]

(* A builder that gives all four quadrants the size mid_x by mid_y. *)
build_quadrants_equal_sizes(x, y, width, height) ==
    LET mid_x == width \div 2
        mid_y == height \div 2
    IN <<<<x, y, mid_x, mid_y>>,
         <<x + mid_x, y, mid_x, mid_y>>,
         <<x, y + mid_y, mid_x, mid_y>>,
         <<x + mid_x, y + mid_y, mid_x, mid_y>>>>

(* The four quadrants <<x, y, width, height>> of _build_tree: NW, NE, SW, SE. *)
build_quadrants(x, y, width, height) ==
    LET mid_x == width \div 2
        mid_y == height \div 2
    IN <<<<x, y, mid_x, mid_y>>,
         <<x + mid_x, y, width - mid_x, mid_y>>,
         <<x, y + mid_y, mid_x, height - mid_y>>,
         <<x + mid_x, y + mid_y, width - mid_x, height - mid_y>>>>

(* The colour of a forced leaf: image[y, x], three times over when the     *)
(* raster has one channel.                                                 *)
forced_leaf_color(image, x, y) ==
    IF Len(image.shape) = 3
    THEN image.px[<<y, x>>]
    ELSE <<image.px[<<y, x>>], image.px[<<y, x>>], image.px[<<y, x>>]>>

RECURSIVE build_tree(_, _, _, _, _, _, _, _)
build_tree(image, threshold, x, y, width, height, k, path) ==
    IF width <= 1 \/ height <= 1
    THEN LeafNode(k, path, x, y, width, height, forced_leaf_color(image, x, y),
                  <<k, path>>)
    ELSE IF is_homogeneous(image, threshold, x, y, width, height)
    THEN LeafNode(k, path, x, y, width, height,
                  get_average_color(image, x, y, width, height), <<k, path>>)
    ELSE LET q == build_quadrants(x, y, width, height)
             children ==
                [i \in 1..4 |->
                    build_tree(image, threshold, q[i][1], q[i][2], q[i][3],
                               q[i][4], k, Append(path, i))]
         IN InternalNode(k, path, x, y, width, height, children)

RECURSIVE count_nodes(_)
count_nodes(node) ==
    IF node.is_leaf THEN 1
    ELSE 1 + count_nodes(node.children[1]) + count_nodes(node.children[2])
           + count_nodes(node.children[3]) + count_nodes(node.children[4])

RECURSIVE GCD(_, _)
GCD(a, b) == IF b = 0 THEN a ELSE GCD(b, a % b)

Abs(a) == IF a < 0 THEN -a ELSE a

(* The rational n/d (d > 0) in lowest terms, standing for a float. *)
Ratio(n, d) ==
    LET g == GCD(Abs(n), d)
    IN <<n \div g, d \div g>>

calculate_compression_ratio(original_shape, root) ==
    LET total_pixels == original_shape[1] * original_shape[2]
        node_count == count_nodes(root)
    IN Ratio((total_pixels - node_count) * 100, total_pixels)

QuadTree(image, threshold, k) ==
    LET root == build_tree(image, threshold, 0, 0, image.shape[2], image.shape[1],
                           k, <<>>)
    IN [threshold |-> threshold,
        original_shape |-> image.shape,
        root |-> root,
        compression_ratio |-> calculate_compression_ratio(image.shape, root)]

(* ---------------------------------------------------------------------- *)
(* flip_horizontal, flip_vertical                                         *)
(* ---------------------------------------------------------------------- *)
(* A copy that forgets the [:] and hands on the node's own list. *)
copy_pixel_value_aliased(node, k, path) ==
    [pixel_value |-> node.pixel_value, pv_id |-> node.pv_id]

(* `node.pixel_value[:] if node.pixel_value else []`: a new list, owned by *)
(* the node <<k, path>>, with the same elements.                          *)
copy_pixel_value(node, k, path) ==
    [pixel_value |-> node.pixel_value, pv_id |-> <<k, path>>]

(* A flip that forgets the node's width. *)
flip_horizontal_x_without_width(original_shape, node) ==
    original_shape[2] - node.x

(* The x of a horizontally flipped node. *)
flip_horizontal_x(original_shape, node) ==
    original_shape[2] - node.x - node.width

(* An order with the last index repeated: SE never moves to SW. *)
flip_horizontal_order_repeated == <<2, 1, 4, 4>>

(* flipped_children[i] is the flip of children[flip_horizontal_order[i]]:  *)
(* NW <-> NE, SW <-> SE.                                                   *)
flip_horizontal_order == <<2, 1, 4, 3>>

RECURSIVE flip_horizontal_recursive(_, _, _, _)
flip_horizontal_recursive(original_shape, node, k, path) ==
    IF node.is_leaf
    THEN LET pv == copy_pixel_value(node, k, path)
         IN LeafNode(k, path, flip_horizontal_x(original_shape, node), node.y,
                     node.width, node.height, pv.pixel_value, pv.pv_id)
    ELSE LET flipped_children ==
                [i \in 1..4 |->
                    flip_horizontal_recursive(
                        original_shape, node.children[flip_horizontal_order[i]],
                        k, Append(path, i))]
         IN InternalNode(k, path, flip_horizontal_x(original_shape, node), node.y,
                         node.width, node.height, flipped_children)

flip_horizontal(self, k) ==
    [threshold |-> self.threshold,
     original_shape |-> self.original_shape,
     root |-> flip_horizontal_recursive(self.original_shape, self.root, k, <<>>),
     compression_ratio |-> self.compression_ratio]

(* A flip that forgets the node's height. *)
flip_vertical_y_without_height(original_shape, node) ==
    original_shape[1] - node.y

(* The y of a vertically flipped node. *)
flip_vertical_y(original_shape, node) ==
    original_shape[1] - node.y - node.height

(* NW <-> SW, NE <-> SE. *)
flip_vertical_order == <<3, 4, 1, 2>>

RECURSIVE flip_vertical_recursive(_, _, _, _)
flip_vertical_recursive(original_shape, node, k, path) ==
    IF node.is_leaf
    THEN LET pv == copy_pixel_value(node, k, path)
         IN LeafNode(k, path, node.x, flip_vertical_y(original_shape, node),
                     node.width, node.height, pv.pixel_value, pv.pv_id)
    ELSE LET flipped_children ==
                [i \in 1..4 |->
                    flip_vertical_recursive(
                        original_shape, node.children[flip_vertical_order[i]],
                        k, Append(path, i))]
         IN InternalNode(k, path, node.x, flip_vertical_y(original_shape, node),
                         node.width, node.height, flipped_children)

flip_vertical(self, k) ==
    [threshold |-> self.threshold,
     original_shape |-> self.original_shape,
     root |-> flip_vertical_recursive(self.original_shape, self.root, k, <<>>),
     compression_ratio |-> self.compression_ratio]

(* ---------------------------------------------------------------------- *)
(* overlay                                                                *)
(* ---------------------------------------------------------------------- *)
(* A combination whose add does not saturate. *)
overlay_channel_unclamped_add(c1, c2, op, a) ==
    IF op = "blend" THEN <<c1 * (AlphaDen - a) + c2 * a, AlphaDen>>
    ELSE IF op = "add" THEN <<c1 + c2, 1>>
    ELSE IF op = "multiply" THEN <<c1 * c2, MaxChannel>>
    ELSE IF op = "screen"
         THEN <<MaxChannel * MaxChannel - (MaxChannel - c1) * (MaxChannel - c2),
                MaxChannel>>
    ELSE <<c1 * (AlphaDen - a) + c2 * a, AlphaDen>>

(* One channel of _apply_overlay_operation before int(), as the rational   *)
(* <<numerator, denominator>>; alpha is a / AlphaDen.                      *)
overlay_channel(c1, c2, op, a) ==
    IF op = "blend" THEN <<c1 * (AlphaDen - a) + c2 * a, AlphaDen>>
    ELSE IF op = "add"
         THEN <<IF c1 + c2 < MaxChannel THEN c1 + c2 ELSE MaxChannel, 1>>
    ELSE IF op = "multiply" THEN <<c1 * c2, MaxChannel>>
    ELSE IF op = "screen"
         THEN <<MaxChannel * MaxChannel - (MaxChannel - c1) * (MaxChannel - c2),
                MaxChannel>>
    ELSE <<c1 * (AlphaDen - a) + c2 * a, AlphaDen>>

apply_overlay_operation(color1, color2, op, a) ==
    [ch \in 1..Len(color1) |->
        LET result == overlay_channel(color1[ch], color2[ch], op, a)
        IN Trunc(result[1], result[2])]

(* Nodes made by _expand_leaf_node live only during the merge: tree 0. *)
expand_quadrants(node) ==
    LET mid_x == node.width \div 2
        mid_y == node.height \div 2
    IN <<<<node.x, node.y, mid_x, mid_y>>,
         <<node.x + mid_x, node.y, node.width - mid_x, mid_y>>,
         <<node.x, node.y + mid_y, mid_x, node.height - mid_y>>,
         <<node.x + mid_x, node.y + mid_y, node.width - mid_x,
           node.height - mid_y>>>>

expand_leaf_node(node) ==
    IF node.width <= 1 \/ node.height <= 1 THEN node
    ELSE LET q == expand_quadrants(node)
             p == node.id[2]
             children ==
                [i \in 1..4 |->
                    LET pv == copy_pixel_value(node, 0, Append(p, i))
                    IN LeafNode(0, Append(p, i), q[i][1], q[i][2], q[i][3],
                                q[i][4], pv.pixel_value, pv.pv_id)]
         IN InternalNode(0, p, node.x, node.y, node.width, node.height, children)

(* `pixel_value or [0,0,0]` *)
OrBlack(pixel_value) == IF pixel_value = <<>> THEN <<0, 0, 0>> ELSE pixel_value

(* The result is [exc, node]: exc is "IndexError" when `(children or [])[i]` *)
(* indexes the empty list of a leaf that _expand_leaf_node left unexpanded, *)
(* and then node is meaningless.                                           *)
RECURSIVE overlay_recursive(_, _, _, _, _, _)
overlay_recursive(node1, node2, op, a, k, path) ==
    IF node1.is_leaf /\ node2.is_leaf
    THEN LET result_color == apply_overlay_operation(OrBlack(node1.pixel_value),
                                                     OrBlack(node2.pixel_value),
                                                     op, a)
         IN [exc |-> "none",
             node |-> LeafNode(k, path, node1.x, node1.y, node1.width,
                               node1.height, result_color, <<k, path>>)]
    ELSE LET n1 == IF node1.is_leaf THEN expand_leaf_node(node1) ELSE node1
             n2 == IF node2.is_leaf THEN expand_leaf_node(node2) ELSE node2
         IN IF Len(n1.children) < 4 \/ Len(n2.children) < 4
            THEN [exc |-> "IndexError", node |-> node1]
            ELSE LET overlay_children ==
                        [i \in 1..4 |->
                            overlay_recursive(n1.children[i], n2.children[i],
                                              op, a, k, Append(path, i))]
                 IN IF \E i \in 1..4 : overlay_children[i].exc # "none"
                    THEN [exc |-> "IndexError", node |-> node1]
                    ELSE [exc |-> "none",
                          node |-> InternalNode(k, path, n1.x, n1.y, n1.width,
                                                n1.height,
                                                [i \in 1..4 |->
                                                    overlay_children[i].node])]

(* (x + y) / 2 on the rationals x, y. *)
Mean(x, y) == Ratio(x[1] * y[2] + y[1] * x[2], 2 * x[2] * y[2])

overlay(self, other_tree, op, a, k) ==
    LET r == overlay_recursive(self.root, other_tree.root, op, a, k, <<>>)
    IN [exc |-> r.exc,
        tree |-> [threshold |-> self.threshold,
                  original_shape |-> self.original_shape,
                  root |-> r.node,
                  compression_ratio |-> Mean(self.compression_ratio,
                                             other_tree.compression_ratio)]]

(* ---------------------------------------------------------------------- *)
(* to_image                                                               *)
(* ---------------------------------------------------------------------- *)
(* An image under construction: px the uint8 array, writes the number of   *)
(* slice assignments that have covered each pixel.                         *)
Zeros(original_shape) ==
    [px |-> [c \in Coords(original_shape[2], original_shape[1]) |->
                IF Len(original_shape) = 3 THEN <<0, 0, 0>> ELSE 0],
     writes |-> [c \in Coords(original_shape[2], original_shape[1]) |-> 0]]

Uint8(v) == v % (MaxChannel + 1)

(* A slice with the axes exchanged: image[x:x+width, y:y+height]. *)
leaf_slice_axes_exchanged(original_shape, node) ==
    Region(original_shape, node.y, node.x, node.height, node.width)

(* image[node.y:node.y+node.height, node.x:node.x+node.width] *)
leaf_slice(original_shape, node) ==
    Region(original_shape, node.x, node.y, node.width, node.height)

RECURSIVE render_node(_, _, _)
render_node(original_shape, node, image) ==
    IF node.is_leaf
    THEN LET region == leaf_slice(original_shape, node)
             value == IF Len(original_shape) = 3
                      THEN [ch \in 1..3 |-> Uint8(OrBlack(node.pixel_value)[ch])]
                      ELSE Uint8(IF node.pixel_value # <<>>
                                 THEN node.pixel_value[1] ELSE 0)
         IN [px |-> [c \in DOMAIN image.px |->
                        IF c \in region THEN value ELSE image.px[c]],
             writes |-> [c \in DOMAIN image.px |->
                        IF c \in region THEN image.writes[c] + 1
                        ELSE image.writes[c]]]
    ELSE render_node(original_shape, node.children[4],
           render_node(original_shape, node.children[3],
             render_node(original_shape, node.children[2],
               render_node(original_shape, node.children[1], image))))

to_image(self) == render_node(self.original_shape, self.root, Zeros(self.original_shape))

(* ---------------------------------------------------------------------- *)
(* State machine                                                          *)
(* ---------------------------------------------------------------------- *)
(* images: the rasters the session's trees were built from; trees: every  *)
(* QuadTree made so far; calls[i]: the call that made trees[i]; last: the  *)
(* latest call, failed or not; rendered: the array of the latest to_image. *)
(* in_color1, in_color2, out_color: the arguments and the result of a direct  *)
(* call of _apply_overlay_operation (unused in a tree session).            *)
Call(op, a, b, exc, result) ==
    [op |-> op, a |-> a, b |-> b, exc |-> exc, result |-> result]

(* Rasters of a two-image session (ImageProcessor.overlay_images converts  *)
(* both to RGB).                                                           *)
PairImages ==
    {im \in Images : /\ Len(im.shape) = 3
                     /\ im.shape[1] <= MaxH - 1
                     /\ im.shape[2] <= MaxW - 1}

(* alpha is drawn for the operations that read it; the others get one.    *)
OverlayParams ==
    {p \in Operations \X (0..AlphaDen) :
        p[1] \in {"blend", "xor"} \/ p[2] = AlphaDen \div 2}

InitOne ==
    \E image \in Images, threshold \in Thresholds :
        /\ images = <<image>>
        /\ trees = <<QuadTree(image, threshold, 1)>>
        /\ calls = <<Call("build", 0, 0, "none", 1)>>
        /\ last = Call("build", 0, 0, "none", 1)

InitTwo ==
    \E image1 \in PairImages, image2 \in PairImages,
       threshold1 \in Thresholds, threshold2 \in Thresholds :
        /\ images = <<image1, image2>>
        /\ trees = <<QuadTree(image1, threshold1, 1),
                     QuadTree(image2, threshold2, 2)>>
        /\ calls = <<Call("build", 0, 0, "none", 1),
                     Call("build", 0, 0, "none", 2)>>
        /\ last = Call("build", 0, 0, "none", 2)

Init ==
    /\ InitOne \/ InitTwo
    /\ \E p \in OverlayParams : operation = p[1] /\ alpha = p[2]
    /\ rendered = <<>>
    /\ in_color1 = <<>>
    /\ in_color2 = <<>>
    /\ out_color = <<>>

FlipHorizontal(i) ==
    /\ Len(trees) < MaxTrees
    /\ LET k == Len(trees) + 1
           c == Call("flip_horizontal", i, 0, "none", k)
       IN /\ trees' = Append(trees, flip_horizontal(trees[i], k))
          /\ calls' = Append(calls, c)
          /\ last' = c
    /\ rendered' = <<>>
    /\ UNCHANGED <<images, operation, alpha, in_color1, in_color2, out_color>>

FlipVertical(i) ==
    /\ Len(trees) < MaxTrees
    /\ LET k == Len(trees) + 1
           c == Call("flip_vertical", i, 0, "none", k)
       IN /\ trees' = Append(trees, flip_vertical(trees[i], k))
          /\ calls' = Append(calls, c)
          /\ last' = c
    /\ rendered' = <<>>
    /\ UNCHANGED <<images, operation, alpha, in_color1, in_color2, out_color>>

(* A call that raises makes no tree. *)
Overlay(i, j) ==
    /\ Len(trees) < MaxTrees
    /\ LET k == Len(trees) + 1
           r == overlay(trees[i], trees[j], operation, alpha, k)
       IN IF r.exc = "none"
          THEN /\ trees' = Append(trees, r.tree)
               /\ calls' = Append(calls, Call("overlay", i, j, "none", k))
               /\ last' = Call("overlay", i, j, "none", k)
          ELSE /\ last' = Call("overlay", i, j, r.exc, 0)
               /\ UNCHANGED <<trees, calls>>
    /\ rendered' = <<>>
    /\ UNCHANGED <<images, operation, alpha, in_color1, in_color2, out_color>>

(* result_array = result_tree.to_image(): the latest result is rendered. *)
ToImage ==
    /\ last.result # 0
    /\ last.op # "to_image"
    /\ rendered' = to_image(trees[last.result])
    /\ last' = Call("to_image", last.result, 0, "none", last.result)
    /\ UNCHANGED <<images, trees, calls, operation, alpha, in_color1, in_color2,
                   out_color>>

Next ==
    \/ \E i \in 1..Len(trees) : FlipHorizontal(i)
    \/ \E i \in 1..Len(trees) : FlipVertical(i)
    \/ \E i \in 1..Len(trees), j \in 1..Len(trees) : Overlay(i, j)
    \/ ToImage

Spec == Init /\ [][Next]_vars

(* ---------------------------------------------------------------------- *)
(* ImageProcessor.process_image: one raster, flips and rendering only     *)
(* ---------------------------------------------------------------------- *)
InitFlip ==
    /\ InitOne
    /\ operation = "blend"
    /\ alpha = AlphaDen \div 2
    /\ rendered = <<>>
    /\ in_color1 = <<>>
    /\ in_color2 = <<>>
    /\ out_color = <<>>

NextFlip ==
    \/ \E i \in 1..Len(trees) : FlipHorizontal(i)
    \/ \E i \in 1..Len(trees) : FlipVertical(i)
    \/ ToImage

SpecFlip == InitFlip /\ [][NextFlip]_vars

(* ---------------------------------------------------------------------- *)
(* _apply_overlay_operation on its own: every pair of channel values      *)
(* ---------------------------------------------------------------------- *)
InitCombine ==
    /\ \E c1 \in 0..MaxChannel, c2 \in 0..MaxChannel :
          /\ in_color1 = <<c1, 0, MaxChannel>>
          /\ in_color2 = <<c2, c2, c2>>
    /\ operation = "blend"
    /\ alpha = AlphaDen \div 2
    /\ out_color = <<>>
    /\ images = <<>>
    /\ trees = <<>>
    /\ calls = <<>>
    /\ last = Call("none", 0, 0, "none", 0)
    /\ rendered = <<>>

Combine(op, a) ==
    /\ out_color = <<>>
    /\ operation' = op
    /\ alpha' = a
    /\ out_color' = apply_overlay_operation(in_color1, in_color2, op, a)
    /\ last' = Call("apply_overlay_operation", 0, 0, "none", 0)
    /\ UNCHANGED <<images, trees, calls, rendered, in_color1, in_color2>>

NextCombine == \E op \in Operations, a \in 0..AlphaDen : Combine(op, a)

SpecCombine == InitCombine /\ [][NextCombine]_vars

(* ---------------------------------------------------------------------- *)
(* Vocabulary of the properties                                           *)
(* ---------------------------------------------------------------------- *)
RECURSIVE Nodes(_)
Nodes(node) ==
    {node} \cup UNION {Nodes(node.children[i]) : i \in DOMAIN node.children}

InternalNodes(tree) == {n \in Nodes(tree.root) : ~n.is_leaf}

Leaves(tree) == {n \in Nodes(tree.root) : n.is_leaf}

(* The pixels <<py, px>> of a node's region. *)
Rect(n) == (n.y..(n.y + n.height - 1)) \X (n.x..(n.x + n.width - 1))

RegionOf(n) == <<n.x, n.y, n.width, n.height>>

Flips == {"flip_horizontal", "flip_vertical"}

(* A QuadTreeNode as the dataclass compares it: by fields, not identity. *)
RECURSIVE Plain(_)
Plain(node) ==
    [x |-> node.x, y |-> node.y, width |-> node.width, height |-> node.height,
     is_leaf |-> node.is_leaf, pixel_value |-> node.pixel_value,
     children |-> [i \in DOMAIN node.children |-> Plain(node.children[i])]]

TreeEq(t, u) ==
    /\ t.threshold = u.threshold
    /\ t.original_shape = u.original_shape
    /\ t.compression_ratio = u.compression_ratio
    /\ Plain(t.root) = Plain(u.root)

(* A pixel of a raster of the given shape as a colour [r, g, b]. *)
AsColor(shape, v) == IF Len(shape) = 3 THEN v ELSE <<v, v, v>>

(* ---------------------------------------------------------------------- *)
(* C1                                                                     *)
(* ---------------------------------------------------------------------- *)
Tiles(n) ==
    /\ Len(n.children) = 4
    /\ \A i \in 1..4 : n.children[i].width >= 1 /\ n.children[i].height >= 1
    /\ \A i \in 1..4 : \A j \in 1..4 :
          i < j => Rect(n.children[i]) \cap Rect(n.children[j]) = {}
    /\ UNION {Rect(n.children[i]) : i \in 1..4} = Rect(n)

(* C1: in every tree made by build, flip_horizontal, flip_vertical and     *)
(* overlay, every internal node has exactly four children, each at least   *)
(* 1 x 1, pairwise disjoint, whose union is the parent's rectangle.        *)
C1_ChildrenTile ==
    \A t \in 1..Len(trees) : \A n \in InternalNodes(trees[t]) : Tiles(n)

(* An overlay of two trees of equal root size that expanded the leaf root  *)
(* of its first operand.                                                   *)
C1_Witness ==
    \E t \in 1..Len(trees) :
        /\ calls[t].op = "overlay"
        /\ trees[calls[t].a].root.is_leaf
        /\ ~trees[calls[t].b].root.is_leaf
        /\ trees[calls[t].a].root.width = trees[calls[t].b].root.width
        /\ trees[calls[t].a].root.height = trees[calls[t].b].root.height
        /\ ~trees[t].root.is_leaf

(* ---------------------------------------------------------------------- *)
(* C2                                                                     *)
(* ---------------------------------------------------------------------- *)
(* The children of n are NW, NE, SW, SE cut at mid_x, mid_y. *)
ChildrenCutAt(n, mid_x, mid_y) ==
    /\ Len(n.children) = 4
    /\ RegionOf(n.children[1]) = <<n.x, n.y, mid_x, mid_y>>
    /\ RegionOf(n.children[2]) = <<n.x + mid_x, n.y, n.width - mid_x, mid_y>>
    /\ RegionOf(n.children[3]) = <<n.x, n.y + mid_y, mid_x, n.height - mid_y>>
    /\ RegionOf(n.children[4]) =
          <<n.x + mid_x, n.y + mid_y, n.width - mid_x, n.height - mid_y>>

FloorCut(n) == ChildrenCutAt(n, n.width \div 2, n.height \div 2)

(* C2 as claimed: in every tree made by build, the flips or overlay the    *)
(* children of an internal node are cut at floor(width/2), floor(height/2).*)
C2_FloorCutEverywhere ==
    \A t \in 1..Len(trees) : \A n \in InternalNodes(trees[t]) : FloorCut(n)

(* trees[t] was made without a flip: by build, or by overlay of such trees. *)
RECURSIVE Unflipped(_)
Unflipped(t) ==
    \/ calls[t].op = "build"
    \/ /\ calls[t].op = "overlay"
       /\ Unflipped(calls[t].a)
       /\ Unflipped(calls[t].b)

(* C2 amended: the children of an internal node are NW, NE, SW, SE cut at  *)
(* mid_x, mid_y, where mid_x is floor(width/2) or width - floor(width/2)   *)
(* and mid_y is floor(height/2) or height - floor(height/2); in a tree made *)
(* by build, or by overlay of trees made without a flip, both are the      *)
(* floor.                                                                  *)
C2_CutAtFloorOrCeiling ==
    \A t \in 1..Len(trees) : \A n \in InternalNodes(trees[t]) :
        /\ \E mid_x \in {n.width \div 2, n.width - n.width \div 2} :
           \E mid_y \in {n.height \div 2, n.height - n.height \div 2} :
               ChildrenCutAt(n, mid_x, mid_y)
        /\ Unflipped(t) => FloorCut(n)

(* A horizontally flipped tree whose root has odd width and is cut at the *)
(* ceiling.                                                                *)
C2_Witness ==
    \E t \in 1..Len(trees) :
        /\ calls[t].op = "flip_horizontal"
        /\ ~trees[t].root.is_leaf
        /\ trees[t].root.width % 2 = 1
        /\ trees[t].root.children[1].width = (trees[t].root.width \div 2) + 1

(* ---------------------------------------------------------------------- *)
(* C3                                                                     *)
(* ---------------------------------------------------------------------- *)
(* trees[t] is the same flip applied twice to the built tree trees[s]. *)
TwiceFlipped(t, s) ==
    /\ calls[t].op \in Flips
    /\ calls[calls[t].a].op = calls[t].op
    /\ calls[calls[t].a].a = s
    /\ calls[s].op = "build"

(* C3: flipping a built tree twice the same way gives a tree equal to it   *)
(* node for node (regions, colours, child order) and in threshold, shape   *)
(* and compression_ratio.                                                  *)
C3_FlipInvolution ==
    \A t \in 1..Len(trees) : \A s \in 1..Len(trees) :
        TwiceFlipped(t, s) => TreeEq(trees[t], trees[s])

(* A twice-flipped tree with an internal root of odd width and height,     *)
(* whose single flip differs from it.                                      *)
C3_Witness ==
    \E t \in 1..Len(trees) : \E s \in 1..Len(trees) :
        /\ TwiceFlipped(t, s)
        /\ ~trees[s].root.is_leaf
        /\ trees[s].root.width % 2 = 1
        /\ trees[s].root.height % 2 = 1
        /\ ~TreeEq(trees[calls[t].a], trees[s])

(* ---------------------------------------------------------------------- *)
(* C4                                                                     *)
(* ---------------------------------------------------------------------- *)
(* C4: in to_image of a built tree every pixel of the raster lies in the   *)
(* region of exactly one leaf, is written exactly once, and has that       *)
(* leaf's colour.                                                          *)
C4_RenderShowsLeaves ==
    (last.op = "to_image" /\ calls[last.a].op = "build") =>
        LET tree == trees[last.a]
        IN \A c \in Coords(tree.original_shape[2], tree.original_shape[1]) :
              /\ Cardinality({n \in Leaves(tree) : c \in Rect(n)}) = 1
              /\ rendered.writes[c] = 1
              /\ \A n \in Leaves(tree) :
                    c \in Rect(n) =>
                        AsColor(tree.original_shape, rendered.px[c]) = n.pixel_value

(* A rendered built tree with an internal root, non-square. *)
C4_Witness ==
    /\ last.op = "to_image"
    /\ calls[last.a].op = "build"
    /\ ~trees[last.a].root.is_leaf
    /\ trees[last.a].root.width # trees[last.a].root.height
    /\ \E c \in DOMAIN rendered.px :
          AsColor(trees[last.a].original_shape, rendered.px[c]) # <<0, 0, 0>>

(* ---------------------------------------------------------------------- *)
(* C5                                                                     *)
(* ---------------------------------------------------------------------- *)
(* trees[t] was made by build, optionally followed by flips. *)
RECURSIVE BuiltThenFlipped(_)
BuiltThenFlipped(t) ==
    \/ calls[t].op = "build"
    \/ calls[t].op \in Flips /\ BuiltThenFlipped(calls[t].a)

(* Every pair of nodes that _overlay_recursive visits from (node1, node2)  *)
(* has equal regions; the visit stops where the code raises.               *)
RECURSIVE VisitsCongruent(_, _)
VisitsCongruent(node1, node2) ==
    /\ RegionOf(node1) = RegionOf(node2)
    /\ \/ node1.is_leaf /\ node2.is_leaf
       \/ LET n1 == IF node1.is_leaf THEN expand_leaf_node(node1) ELSE node1
              n2 == IF node2.is_leaf THEN expand_leaf_node(node2) ELSE node2
          IN \/ Len(n1.children) < 4
             \/ Len(n2.children) < 4
             \/ \A i \in 1..4 : VisitsCongruent(n1.children[i], n2.children[i])

SameRootSize(t, u) ==
    /\ trees[t].root.width = trees[u].root.width
    /\ trees[t].root.height = trees[u].root.height

(* C5 as claimed: an overlay of two trees of equal root width and height,  *)
(* each built and optionally flipped, visits only node pairs of equal      *)
(* region and completes with a result tree.                                *)
C5_OverlayCongruentAndCompletes ==
    (/\ last.op = "overlay"
     /\ BuiltThenFlipped(last.a)
     /\ BuiltThenFlipped(last.b)
     /\ SameRootSize(last.a, last.b)) =>
        /\ VisitsCongruent(trees[last.a].root, trees[last.b].root)
        /\ last.exc = "none"
        /\ last.result # 0

(* ---------------------------------------------------------------------- *)
(* C6                                                                     *)
(* ---------------------------------------------------------------------- *)
Min(a, b) == IF a < b THEN a ELSE b

(* C6: for blend, add, multiply and screen, channel values in 0..255 and   *)
(* alpha in [0, 1], every channel of the combined colour is in 0..255, and *)
(* add yields min(c1 + c2, 255).                                           *)
C6_CombineInRange ==
    (out_color # <<>> /\ operation \in ValidOperations) =>
        /\ Len(out_color) = 3
        /\ \A ch \in 1..3 :
              /\ out_color[ch] \in 0..MaxChannel
              /\ operation = "add" =>
                    out_color[ch] = Min(in_color1[ch] + in_color2[ch], MaxChannel)

(* add of two channels whose sum exceeds 255 saturates at 255. *)
C6_Witness ==
    /\ out_color # <<>>
    /\ operation = "add"
    /\ in_color1[1] + in_color2[1] > MaxChannel
    /\ out_color[1] = MaxChannel

(* ---------------------------------------------------------------------- *)
(* C7                                                                     *)
(* ---------------------------------------------------------------------- *)
(* C7: an overlay with an operation tag outside blend, add, multiply,      *)
(* screen is rejected with UnsupportedOperation and makes no tree.         *)
C7_UnknownOperationRejected ==
    (last.op = "overlay" /\ operation \notin ValidOperations) =>
        /\ last.exc = "UnsupportedOperation"
        /\ last.result = 0

(* ---------------------------------------------------------------------- *)
(* C8                                                                     *)
(* ---------------------------------------------------------------------- *)
(* C8: an overlay of two trees whose roots differ in width or height is    *)
(* rejected with ShapeMismatch and makes no tree.                          *)
C8_ShapeMismatchRejected ==
    (last.op = "overlay" /\ ~SameRootSize(last.a, last.b)) =>
        /\ last.exc = "ShapeMismatch"
        /\ last.result = 0

(* ---------------------------------------------------------------------- *)
(* C9                                                                     *)
(* ---------------------------------------------------------------------- *)
NodeIds(tree) == {n.id : n \in Nodes(tree.root)}

ListIds(tree) == {n.pv_id : n \in Leaves(tree)}

(* No two trees have a node object or a pixel_value list in common. *)
NoSharing(ts) ==
    \A i \in 1..Len(ts) : \A j \in 1..Len(ts) :
        i < j => /\ NodeIds(ts[i]) \cap NodeIds(ts[j]) = {}
                 /\ ListIds(ts[i]) \cap ListIds(ts[j]) = {}

(* C9: every call of flip_horizontal, flip_vertical and overlay leaves     *)
(* every tree that existed before it as it was, and no tree shares a node  *)
(* or a colour list with another.                                          *)
C9_InputsUntouched ==
    [][/\ Len(trees') >= Len(trees)
       /\ \A i \in 1..Len(trees) : trees'[i] = trees[i]
       /\ NoSharing(trees')]_vars

(* Three trees: a built one, and two made from it by a flip and by an      *)
(* overlay.                                                                *)
C9_Witness ==
    /\ Len(trees) = 3
    /\ \E t \in 1..Len(trees) :
          calls[t].op \in Flips /\ ~trees[t].root.is_leaf
    /\ \E t \in 1..Len(trees) :
          calls[t].op = "overlay" /\ ~trees[t].root.is_leaf

(* ---------------------------------------------------------------------- *)
(* C10                                                                    *)
(* ---------------------------------------------------------------------- *)
(* C10 as claimed: a forced leaf of a built tree (width <= 1 or            *)
(* height <= 1) has, at every pixel of its region, the colour of the       *)
(* raster at that pixel.                                                   *)
C10_ForcedLeafIsItsPixels ==
    \A t \in 1..Len(images) :
        \A n \in Leaves(trees[t]) :
            (n.width <= 1 \/ n.height <= 1) =>
                \A c \in Rect(n) :
                    n.pixel_value = AsColor(images[t].shape, images[t].px[c])

(* ---------------------------------------------------------------------- *)
(* C11                                                                    *)
(* ---------------------------------------------------------------------- *)
(* The latest call rendered trees[last.a], a single flip of a built tree. *)
RenderedFlipOfBuilt ==
    /\ last.op = "to_image"
    /\ calls[last.a].op \in Flips
    /\ calls[calls[last.a].a].op = "build"

(* The pixel that a flip of kind op moves to c = <<py, px>> in an H x W    *)
(* raster.                                                                 *)
MirrorOf(op, shape, c) ==
    IF op = "flip_horizontal"
    THEN <<c[1], shape[2] - 1 - c[2]>>
    ELSE <<shape[1] - 1 - c[1], c[2]>>

(* C11: to_image of a flipped built tree is the pixel mirror of to_image   *)
(* of the built tree: at every pixel (px, py) the horizontal flip shows    *)
(* the original's pixel (W-1-px, py) and the vertical flip shows the       *)
(* original's pixel (px, H-1-py), for every shape, odd sides included.     *)
C11_FlipRendersMirror ==
    RenderedFlipOfBuilt =>
        LET flipped == last.a
            built == calls[flipped].a
            shape == trees[built].original_shape
            original == to_image(trees[built]).px
        IN /\ DOMAIN rendered.px = DOMAIN original
           /\ \A c \in Coords(shape[2], shape[1]) :
                 rendered.px[c] = original[MirrorOf(calls[flipped].op, shape, c)]

(* A rendered vertical flip of a built tree of odd height with an internal *)
(* root, whose picture differs from the picture of the built tree.         *)
C11_Witness ==
    /\ RenderedFlipOfBuilt
    /\ calls[last.a].op = "flip_vertical"
    /\ ~trees[last.a].root.is_leaf
    /\ trees[last.a].original_shape[1] % 2 = 1
    /\ rendered.px # to_image(trees[calls[last.a].a]).px

====
